---- MODULE Spec2Model ----
(***************************************************************************)
(* MultiModalApp (frontend_service/src/App.tsx): microphone selection,     *)
(* audio capture with MediaRecorder, and the four-stage remote pipeline    *)
(* driven by handleProcessFlow.                                            *)
(*                                                                         *)
(* Every action is one synchronous block of a handler or callback: the     *)
(* code between two awaits runs to completion before any other event is    *)
(* handled.  The React state variables keep their names.  The variables    *)
(* of the last group are history variables: they record what the code did  *)
(* and are read by no guard but those of the bounds.                       *)
(***************************************************************************)
EXTENDS Integers, Sequences, FiniteSets, TLC

\* ---------------------------------------------------------------- bounds
\* User actions of one behaviour that open a capture stream or start a
\* run: permission grants, capture starts and runs of handleProcessFlow
\* together.
MaxOps == 4
\* Non-empty chunks one recorder delivers to ondataavailable.
MaxChunks == 1
\* Handler calls of one behaviour, where the handlers are called directly.
MaxCalls == 4
\* The same count as MaxOps, for the behaviours checked under fairness.
MaxFairOps == 3

\* ------------------------------------------------------- program values
\* useState<string | null>(null): the null of selectedDeviceId and of
\* currentStep.
Null == "null"
\* useState<MediaRecorder | null>(null): recorder is an index into
\* recorders, and this is its null.
NoRecorder == 0
\* useState<Blob | null>(null): a Blob is the recorder that produced it and
\* the number of chunks it holds; this is the null.  A Blob of size 0 is
\* an object like any other, and is truthy.
NoBlob == [rec |-> 0, size |-> 0]
\* useState<number | null>(null) of similarityScore: the score is a number,
\* so its null is kept apart from every score (scores are in tenths).
NullScore == -1
\* A property the JSON body does not carry (error.detail of a body without
\* detail).
Undefined == "undefined"
\* The operand test of JavaScript's || and of `if (x)` on a string.
Falsy(v) == v \in {Undefined, Null, ""}

\* The four remote operations, in the order handleProcessFlow issues them.
StageOrder == <<"transcribe", "generate_image", "analyze_image_similarity",
                "text_to_speech">>

\* What the platform and the remote services may answer.
MicLists == {<<>>, <<"mic1", "mic2">>}
Transcripts == {"a red fox in a forest"}
ImageUrls == {"https://img/1"}
Scores == {825}
Descriptions == {"", "a red fox standing among trees"}
Audios == {"UklGRg"}
Details == {Undefined, "quota exceeded"}
ThrownMessages == {"Failed to fetch"}

NoToast == [title |-> "", description |-> ""]
Toast(t, d) == [title |-> t, description |-> d]

VARIABLES
    \* React state of MultiModalApp
    audioDevices, selectedDeviceId,
    isRecording, recorder, recordedBlob,
    isProcessing, currentStep, progress,
    transcript, imageUrl, similarityScore, imageDescription, descriptionAudio,
    \* the toast last shown
    toast,
    \* platform: MediaRecorder.isTypeSupported, the MediaRecorder objects with
    \* their streams, the number of getUserMedia calls of handleStartRecording
    \* in flight, the number of streams opened by handleRequestMicPermissions
    typeSupported, recorders, pendingOpen, permStreams,
    \* handleProcessFlow invocations suspended at a fetch
    runs,
    \* history
    runNo, finished, progressLog, stamp, lastClick, calls,
    \* history: whether the last answer to handleRequestMicPermissions was a
    \* refusal, and the handler called last where handlers are called directly
    denied, lastCall

\* The state of the device manager, with the history of its last answer.
micVars == <<audioDevices, selectedDeviceId, permStreams, denied>>
recVars == <<isRecording, recorder, recordedBlob, recorders, pendingOpen>>
resultVars == <<transcript, imageUrl, similarityScore, imageDescription,
                descriptionAudio>>
procVars == <<isProcessing, currentStep, progress>>
histVars == <<runNo, finished, progressLog, stamp>>
vars == <<audioDevices, selectedDeviceId, isRecording, recorder, recordedBlob,
          isProcessing, currentStep, progress, transcript, imageUrl,
          similarityScore, imageDescription, descriptionAudio, toast,
          typeSupported, recorders, pendingOpen, permStreams, runs,
          runNo, finished, progressLog, stamp, lastClick, calls,
          denied, lastCall>>

NoFailure == [kind |-> "none", detail |-> Undefined, message |-> ""]

\* One invocation of handleProcessFlow: the recording its closure holds, the
\* bodies it has parsed (transcriptData, imageData, analysisData, ttsData),
\* and, as history, the remote operations it issued, what each returned,
\* the failure that ended it, how it ended and the error it showed.  `finished` is the run that ended
\* last, since the latest start.
NoRun == [id |-> 0, outcome |-> "none", issued |-> <<>>, returned |-> <<>>,
          error |-> "", failure |-> NoFailure, blob |-> NoBlob,
          transcriptData |-> Undefined, imageData |-> Undefined,
          analysisData |-> [similarity_score |-> NullScore,
                            image_description |-> Undefined],
          ttsData |-> Undefined]

\* The streams opened and the runs started so far.
Used == permStreams + Len(recorders) + pendingOpen + runNo

Init ==
    /\ audioDevices = <<>>
    /\ selectedDeviceId = Null
    /\ isRecording = FALSE
    /\ recorder = NoRecorder
    /\ recordedBlob = NoBlob
    /\ isProcessing = FALSE
    /\ currentStep = Null
    /\ progress = 0
    /\ transcript = ""
    /\ imageUrl = ""
    /\ similarityScore = NullScore
    /\ imageDescription = ""
    /\ descriptionAudio = ""
    /\ toast = NoToast
    /\ typeSupported \in BOOLEAN
    /\ recorders = <<>>
    /\ pendingOpen = 0
    /\ permStreams = 0
    /\ runs = <<>>
    /\ runNo = 0
    /\ finished = NoRun
    /\ progressLog = <<>>
    /\ stamp = [transcript |-> 0, imageUrl |-> 0, analysis |-> 0, speech |-> 0]
    /\ lastClick = "none"
    /\ calls = 0
    /\ denied = FALSE
    /\ lastCall = "none"

\* ------------------------------------------------------ DeviceManager
\* handleRequestMicPermissions: getUserMedia({audio: true}) is granted and
\* enumerateDevices answers `mics`.  The stream getUserMedia returned is
\* dropped without being stopped.
PermissionGranted(mics) ==
    /\ Used < MaxOps
    /\ permStreams' = permStreams + 1
    /\ denied' = FALSE
    /\ audioDevices' = mics
    /\ IF Len(mics) > 0
         THEN /\ selectedDeviceId' = mics[1]
              /\ UNCHANGED toast
         ELSE /\ UNCHANGED selectedDeviceId
              /\ toast' = Toast("No Microphones",
                                "No microphone devices were found.")

\* handleRequestMicPermissions: getUserMedia rejects (NotAllowedError, or
\* any other error with its message).
PermissionDenied(name) ==
    /\ toast' = Toast("Permission Error",
                      IF name = "NotAllowedError"
                        THEN "Microphone permission was denied."
                        ELSE "Error: Requested device not found")
    /\ denied' = TRUE
    /\ UNCHANGED <<audioDevices, selectedDeviceId, permStreams>>

handleRequestMicPermissions ==
    /\ \/ \E mics \in MicLists : PermissionGranted(mics)
       \/ \E name \in {"NotAllowedError", "NotFoundError"} : PermissionDenied(name)
    /\ UNCHANGED <<recVars, procVars, resultVars, typeSupported, runs,
                   histVars>>

\* The options of the mic-select element: the placeholder and one option
\* per enumerated device.
MicOptions == {""} \cup {audioDevices[i] : i \in 1..Len(audioDevices)}

\* onChange of mic-select
selectDevice(id) ==
    /\ id \in MicOptions
    /\ id # selectedDeviceId
    /\ selectedDeviceId' = id
    /\ UNCHANGED <<audioDevices, permStreams, denied, recVars, procVars,
                   resultVars, toast, typeSupported, runs, histVars>>

\* ------------------------------------------------- RecordingController
\* Faulty variant of handleStartRecording: selectedDeviceId is not looked
\* at.
handleStartRecordingAnyDevice ==
    /\ IF ~typeSupported
         THEN /\ toast' = Toast("Browser Not Supported",
                   "Your browser doesn't support WebM with Opus codec.")
              /\ UNCHANGED pendingOpen
         ELSE /\ Used < MaxOps
              /\ pendingOpen' = pendingOpen + 1
              /\ UNCHANGED toast
    /\ UNCHANGED <<micVars, isRecording, recorder, recordedBlob, recorders,
                   procVars, resultVars, typeSupported, runs, histVars>>

\* Faulty variant of handleStartRecording: isTypeSupported is not asked.
handleStartRecordingAnyFormat ==
    /\ IF Falsy(selectedDeviceId)
         THEN /\ toast' = Toast("No Microphone",
                                "Please select a microphone first.")
              /\ UNCHANGED pendingOpen
         ELSE /\ Used < MaxOps
              /\ pendingOpen' = pendingOpen + 1
              /\ UNCHANGED toast
    /\ UNCHANGED <<micVars, isRecording, recorder, recordedBlob, recorders,
                   procVars, resultVars, typeSupported, runs, histVars>>

\* handleStartRecording up to its await: the two early returns, then
\* getUserMedia(constraints) is issued against the selected device.
handleStartRecording ==
    /\ IF Falsy(selectedDeviceId)
         THEN /\ toast' = Toast("No Microphone",
                                "Please select a microphone first.")
              /\ UNCHANGED pendingOpen
         ELSE IF ~typeSupported
           THEN /\ toast' = Toast("Browser Not Supported",
                     "Your browser doesn't support WebM with Opus codec.")
                /\ UNCHANGED pendingOpen
           ELSE /\ Used < MaxOps
                /\ pendingOpen' = pendingOpen + 1
                /\ UNCHANGED toast
    /\ UNCHANGED <<micVars, isRecording, recorder, recordedBlob, recorders,
                   procVars, resultVars, typeSupported, runs, histVars>>

\* handleStartRecording after its await, getUserMedia resolved: the stream
\* is open, a MediaRecorder is created on it and started, the previous
\* recording is cleared.
StreamOpened ==
    /\ pendingOpen > 0
    /\ pendingOpen' = pendingOpen - 1
    /\ recorders' = Append(recorders,
                           [state |-> "recording", chunks |-> 0,
                            stopQueued |-> FALSE, tracksLive |-> TRUE])
    /\ recordedBlob' = NoBlob
    /\ recorder' = Len(recorders) + 1
    /\ isRecording' = TRUE
    /\ toast' = Toast("Recording Started",
                      "Speak your prompt clearly into the microphone.")
    /\ UNCHANGED <<micVars, procVars, resultVars, typeSupported, runs,
                   histVars>>

\* handleStartRecording after its await, getUserMedia rejected: the catch
\* block shows err.message.
StreamRefused ==
    /\ pendingOpen > 0
    /\ pendingOpen' = pendingOpen - 1
    /\ toast' = Toast("Recording Error", "Permission denied")
    /\ UNCHANGED <<micVars, isRecording, recorder, recordedBlob, recorders,
                   procVars, resultVars, typeSupported, runs, histVars>>

\* newRecorder.ondataavailable with event.data.size > 0 (an empty chunk
\* changes nothing).  The platform delivers chunks while the recorder
\* records, and the last one between stop() and the stop event.
ondataavailable(i) ==
    /\ i \in 1..Len(recorders)
    /\ recorders[i].state = "recording" \/ recorders[i].stopQueued
    /\ recorders[i].chunks < MaxChunks
    /\ recorders' = [recorders EXCEPT ![i].chunks = @ + 1]
    /\ UNCHANGED <<micVars, isRecording, recorder, recordedBlob, pendingOpen,
                   procVars, resultVars, toast, typeSupported, runs,
                   histVars>>

\* Faulty variant of handleStopRecording: the toast is shown whatever the
\* recorder's state.
handleStopRecordingAlwaysToasts ==
    /\ IF recorder # NoRecorder /\ recorders[recorder].state # "inactive"
         THEN /\ recorders' = [recorders EXCEPT ![recorder].state = "inactive",
                                                ![recorder].stopQueued = TRUE]
              /\ isRecording' = FALSE
         ELSE UNCHANGED <<recorders, isRecording>>
    /\ toast' = Toast("Recording Complete",
                      "You can now process your recording.")
    /\ UNCHANGED <<micVars, recorder, recordedBlob, pendingOpen, procVars,
                   resultVars, typeSupported, runs, histVars>>

\* handleStopRecording: recorder.stop() makes the recorder inactive at once
\* and queues its stop event.
handleStopRecording ==
    /\ IF recorder # NoRecorder /\ recorders[recorder].state # "inactive"
         THEN /\ recorders' = [recorders EXCEPT ![recorder].state = "inactive",
                                                ![recorder].stopQueued = TRUE]
              /\ isRecording' = FALSE
              /\ toast' = Toast("Recording Complete",
                                "You can now process your recording.")
         ELSE UNCHANGED <<recorders, isRecording, toast>>
    /\ UNCHANGED <<micVars, recorder, recordedBlob, pendingOpen, procVars,
                   resultVars, typeSupported, runs, histVars>>

\* Faulty variant of onstop: the run in progress is reset.
onstopResetsRun(i) ==
    /\ i \in 1..Len(recorders)
    /\ recorders[i].stopQueued
    /\ recordedBlob' = [rec |-> i, size |-> recorders[i].chunks]
    /\ recorders' = [recorders EXCEPT ![i].stopQueued = FALSE,
                                      ![i].tracksLive = FALSE]
    /\ progress' = 0
    /\ UNCHANGED <<micVars, isRecording, recorder, pendingOpen, isProcessing,
                   currentStep, resultVars, toast, typeSupported, runs,
                   histVars>>

\* Faulty variant of onstop: the tracks of the stream are not stopped.
onstopKeepsStream(i) ==
    /\ i \in 1..Len(recorders)
    /\ recorders[i].stopQueued
    /\ recordedBlob' = [rec |-> i, size |-> recorders[i].chunks]
    /\ recorders' = [recorders EXCEPT ![i].stopQueued = FALSE]
    /\ UNCHANGED <<micVars, isRecording, recorder, pendingOpen, procVars,
                   resultVars, toast, typeSupported, runs, histVars>>

\* newRecorder.onstop: the chunks become the recording, the tracks of the
\* recorder's stream are stopped.
onstop(i) ==
    /\ i \in 1..Len(recorders)
    /\ recorders[i].stopQueued
    /\ recordedBlob' = [rec |-> i, size |-> recorders[i].chunks]
    /\ recorders' = [recorders EXCEPT ![i].stopQueued = FALSE,
                                      ![i].tracksLive = FALSE]
    /\ UNCHANGED <<micVars, isRecording, recorder, pendingOpen, procVars,
                   resultVars, toast, typeSupported, runs, histVars>>

\* ------------------------------------------------ PipelineOrchestrator
\* What a remote call may come back with besides a success body: a
\* non-success status whose JSON body may carry detail, or a rejected fetch
\* (or json()) that throws an Error with the platform's message.
Failures ==
    [kind : {"http_error"}, detail : Details, message : {""}] \cup
    [kind : {"threw"}, detail : {Undefined}, message : ThrownMessages]

\* The second operand of `error.detail || "..."` of each stage.
Fallback(stage) ==
    CASE stage = "transcribe" -> "Failed to transcribe audio"
      [] stage = "generate_image" -> "Failed to generate image"
      [] stage = "analyze_image_similarity" -> "Failed to analyze image"
      [] stage = "text_to_speech" -> "Failed to convert text to speech"

\* Faulty variant of ErrorMessage: the detail of the body is not used.
ErrorMessageNoDetail(f, stage) ==
    IF f.kind = "http_error" THEN Fallback(stage) ELSE f.message

\* The message of the Error that reaches the catch block.
ErrorMessage(f, stage) ==
    IF f.kind = "http_error"
      THEN IF Falsy(f.detail) THEN Fallback(stage) ELSE f.detail
      ELSE f.message

\* description of the toast of the catch block
CatchDescription(message) ==
    IF Falsy(message) THEN "An error occurred during processing" ELSE message

Last(q) == q[Len(q)]
Remove(q, i) == [j \in 1..(Len(q) - 1) |-> IF j < i THEN q[j] ELSE q[j + 1]]
Awaiting(r, stage) ==
    /\ r \in 1..Len(runs)
    /\ Last(runs[r].issued) = stage

\* Faulty variant of handleProcessFlow: no check of recordedBlob.
handleProcessFlowNoGuard ==
    /\ Used < MaxOps
    /\ runNo' = runNo + 1
    /\ isProcessing' = TRUE
    /\ currentStep' = "transcribing"
    /\ progress' = 20
    /\ progressLog' = <<0, 20>>
    /\ runs' = Append(runs, [NoRun EXCEPT !.id = runNo + 1,
                                          !.outcome = "running",
                                          !.blob = recordedBlob,
                                          !.issued = <<"transcribe">>])
    /\ finished' = NoRun
    /\ UNCHANGED <<micVars, recVars, resultVars, toast, typeSupported, stamp>>

\* Faulty variant of handleProcessFlow: the transcribe call is not awaited
\* before the generate_image call.
handleProcessFlowNoAwait ==
    IF recordedBlob = NoBlob
      THEN /\ toast' = Toast("No Recording", "Please record some audio first.")
           /\ UNCHANGED <<micVars, recVars, procVars, resultVars,
                          typeSupported, runs, histVars>>
      ELSE /\ Used < MaxOps
           /\ runNo' = runNo + 1
           /\ isProcessing' = TRUE
           /\ currentStep' = "transcribing"
           /\ progress' = 20
           /\ progressLog' = <<0, 20>>
           /\ runs' = Append(runs, [NoRun EXCEPT !.id = runNo + 1,
                                                 !.outcome = "running",
                                                 !.blob = recordedBlob,
                                                 !.issued = <<"transcribe",
                                                              "generate_image">>])
           /\ finished' = NoRun
           /\ UNCHANGED <<micVars, recVars, resultVars, toast, typeSupported,
                          stamp>>

\* Faulty variant of handleProcessFlow: progress is left at 0 until the
\* transcribe call has returned.
handleProcessFlowLateProgress ==
    IF recordedBlob = NoBlob
      THEN /\ toast' = Toast("No Recording", "Please record some audio first.")
           /\ UNCHANGED <<micVars, recVars, procVars, resultVars,
                          typeSupported, runs, histVars>>
      ELSE /\ Used < MaxOps
           /\ runNo' = runNo + 1
           /\ isProcessing' = TRUE
           /\ currentStep' = "transcribing"
           /\ progress' = 0
           /\ progressLog' = <<0>>
           /\ runs' = Append(runs, [NoRun EXCEPT !.id = runNo + 1,
                                                 !.outcome = "running",
                                                 !.blob = recordedBlob,
                                                 !.issued = <<"transcribe">>])
           /\ finished' = NoRun
           /\ UNCHANGED <<micVars, recVars, resultVars, toast, typeSupported,
                          stamp>>

\* handleProcessFlow up to its first await.
handleProcessFlow ==
    IF recordedBlob = NoBlob
      THEN /\ toast' = Toast("No Recording", "Please record some audio first.")
           /\ UNCHANGED <<micVars, recVars, procVars, resultVars,
                          typeSupported, runs, histVars>>
      ELSE /\ Used < MaxOps
           /\ runNo' = runNo + 1
           /\ isProcessing' = TRUE
           /\ currentStep' = "transcribing"
           /\ progress' = 20
           /\ progressLog' = <<0, 20>>
           /\ runs' = Append(runs, [NoRun EXCEPT !.id = runNo + 1,
                                                 !.outcome = "running",
                                                 !.blob = recordedBlob,
                                                 !.issued = <<"transcribe">>])
           /\ finished' = NoRun
           /\ UNCHANGED <<micVars, recVars, resultVars, toast, typeSupported,
                          stamp>>

\* Faulty variant of Abort: the catch block clears the results.
AbortClears(r, f) ==
    LET stage == Last(runs[r].issued)
        shown == CatchDescription(ErrorMessage(f, stage))
    IN  /\ toast' = Toast("Processing Error", shown)
        /\ isProcessing' = FALSE
        /\ currentStep' = Null
        /\ runs' = Remove(runs, r)
        /\ finished' = [runs[r] EXCEPT !.outcome = "failed",
                                       !.returned = Append(@, f.kind),
                                       !.failure = f,
                                       !.error = shown]
        /\ transcript' = "" /\ imageUrl' = ""
        /\ similarityScore' = NullScore /\ imageDescription' = ""
        /\ descriptionAudio' = ""
        /\ UNCHANGED <<micVars, recVars, progress, typeSupported,
                       runNo, progressLog, stamp>>

\* Faulty variant of Abort: the catch block resets progress.
AbortResetsProgress(r, f) ==
    LET stage == Last(runs[r].issued)
        shown == CatchDescription(ErrorMessage(f, stage))
    IN  /\ toast' = Toast("Processing Error", shown)
        /\ isProcessing' = FALSE
        /\ currentStep' = Null
        /\ runs' = Remove(runs, r)
        /\ finished' = [runs[r] EXCEPT !.outcome = "failed",
                                       !.returned = Append(@, f.kind),
                                       !.failure = f,
                                       !.error = shown]
        /\ progress' = 0
        /\ UNCHANGED <<micVars, recVars, resultVars, typeSupported,
                       runNo, progressLog, stamp>>

\* Faulty variant of Abort: the failed call is issued again.
AbortRetries(r, f) ==
    /\ runs' = [runs EXCEPT ![r].returned = Append(@, f.kind),
                            ![r].issued = Append(@, Last(runs[r].issued))]
    /\ UNCHANGED <<micVars, recVars, resultVars, procVars, toast,
                   typeSupported, histVars>>

\* Faulty variant of Abort: no finally block.
AbortNoFinally(r, f) ==
    LET stage == Last(runs[r].issued)
        shown == CatchDescription(ErrorMessage(f, stage))
    IN  /\ toast' = Toast("Processing Error", shown)
        /\ runs' = Remove(runs, r)
        /\ finished' = [runs[r] EXCEPT !.outcome = "failed",
                                       !.returned = Append(@, f.kind),
                                       !.failure = f,
                                       !.error = shown]
        /\ UNCHANGED <<micVars, recVars, resultVars, procVars, typeSupported,
                       runNo, progressLog, stamp>>

\* throw ... ; catch: toast ; finally: setIsProcessing(false),
\* setCurrentStep(null).  Nothing else is assigned.
Abort(r, f) ==
    LET stage == Last(runs[r].issued)
        shown == CatchDescription(ErrorMessage(f, stage))
    IN  /\ toast' = Toast("Processing Error", shown)
        /\ isProcessing' = FALSE
        /\ currentStep' = Null
        /\ runs' = Remove(runs, r)
        /\ finished' = [runs[r] EXCEPT !.outcome = "failed",
                                       !.returned = Append(@, f.kind),
                                       !.failure = f,
                                       !.error = shown]
        /\ UNCHANGED <<micVars, recVars, resultVars, progress, typeSupported,
                       runNo, progressLog, stamp>>

\* The tail of the try block and the finally block: setProgress(100), the
\* toast, setIsProcessing(false), setCurrentStep(null).  `run` is the run
\* record as it ends, `log` the progress values assigned before the 100.
Complete(r, run, log) ==
    /\ progress' = 100
    /\ progressLog' = Append(log, 100)
    /\ toast' = Toast("Processing Complete",
                      "All steps have been completed successfully.")
    /\ isProcessing' = FALSE
    /\ currentStep' = Null
    /\ runs' = Remove(runs, r)
    /\ finished' = [run EXCEPT !.outcome = "completed"]

\* Faulty variant of transcribeReturns: transcriptResponse.ok is not looked at.
transcribeReturnsUnchecked(r) ==
    /\ Awaiting(r, "transcribe")
    /\ \E t \in Transcripts, status \in {"ok", "http_error"} :
            /\ transcript' = t
            /\ progress' = 40
            /\ progressLog' = Append(progressLog, 40)
            /\ currentStep' = "generating"
            /\ runs' = [runs EXCEPT ![r].transcriptData = t,
                                    ![r].returned = Append(@, status),
                                    ![r].issued = Append(@, "generate_image")]
            /\ stamp' = [stamp EXCEPT !.transcript = runs[r].id]
            /\ UNCHANGED <<micVars, recVars, isProcessing, imageUrl,
                           similarityScore, imageDescription, descriptionAudio,
                           toast, typeSupported, runNo, finished>>

\* Step 1 returns: /transcribe
transcribeReturns(r) ==
    /\ Awaiting(r, "transcribe")
    /\ \/ \E f \in Failures : Abort(r, f)
       \/ \E t \in Transcripts :
            /\ transcript' = t
            /\ progress' = 40
            /\ progressLog' = Append(progressLog, 40)
            /\ currentStep' = "generating"
            /\ runs' = [runs EXCEPT ![r].transcriptData = t,
                                    ![r].returned = Append(@, "ok"),
                                    ![r].issued = Append(@, "generate_image")]
            /\ stamp' = [stamp EXCEPT !.transcript = runs[r].id]
            /\ UNCHANGED <<micVars, recVars, isProcessing, imageUrl,
                           similarityScore, imageDescription, descriptionAudio,
                           toast, typeSupported, runNo, finished>>

\* Faulty variant of generateImageReturns: the wrong progress value.
generateImageReturnsHalf(r) ==
    /\ Awaiting(r, "generate_image")
    /\ \/ \E f \in Failures : Abort(r, f)
       \/ \E u \in ImageUrls :
            /\ imageUrl' = u
            /\ progress' = 50
            /\ progressLog' = Append(progressLog, 50)
            /\ currentStep' = "analyzing"
            /\ runs' = [runs EXCEPT ![r].imageData = u,
                                    ![r].returned = Append(@, "ok"),
                                    ![r].issued =
                                        Append(@, "analyze_image_similarity")]
            /\ stamp' = [stamp EXCEPT !.imageUrl = runs[r].id]
            /\ UNCHANGED <<micVars, recVars, isProcessing, transcript,
                           similarityScore, imageDescription, descriptionAudio,
                           toast, typeSupported, runNo, finished>>

\* Step 2 returns: /generate_image
generateImageReturns(r) ==
    /\ Awaiting(r, "generate_image")
    /\ \/ \E f \in Failures : Abort(r, f)
       \/ \E u \in ImageUrls :
            /\ imageUrl' = u
            /\ progress' = 60
            /\ progressLog' = Append(progressLog, 60)
            /\ currentStep' = "analyzing"
            /\ runs' = [runs EXCEPT ![r].imageData = u,
                                    ![r].returned = Append(@, "ok"),
                                    ![r].issued =
                                        Append(@, "analyze_image_similarity")]
            /\ stamp' = [stamp EXCEPT !.imageUrl = runs[r].id]
            /\ UNCHANGED <<micVars, recVars, isProcessing, transcript,
                           similarityScore, imageDescription, descriptionAudio,
                           toast, typeSupported, runNo, finished>>

\* Faulty variant of analyzeReturns: text_to_speech is called whatever the
\* description.
analyzeReturnsAlwaysSpeaks(r) ==
    /\ Awaiting(r, "analyze_image_similarity")
    /\ \/ \E f \in Failures : Abort(r, f)
       \/ \E sc \in Scores, d \in Descriptions :
            LET data == [similarity_score |-> sc, image_description |-> d]
                run == [runs[r] EXCEPT !.analysisData = data,
                                       !.returned = Append(@, "ok")]
            IN  /\ similarityScore' = sc
                /\ imageDescription' = d
                /\ stamp' = [stamp EXCEPT !.analysis = runs[r].id]
                /\ IF TRUE
                     THEN /\ progress' = 80
                          /\ progressLog' = Append(progressLog, 80)
                          /\ currentStep' = "speaking"
                          /\ runs' = [runs EXCEPT ![r] =
                                 [run EXCEPT !.issued =
                                      Append(@, "text_to_speech")]]
                          /\ UNCHANGED <<isProcessing, toast, finished>>
                     ELSE Complete(r, run, Append(progressLog, 80))
                /\ UNCHANGED <<micVars, recVars, transcript, imageUrl,
                               descriptionAudio, typeSupported, runNo>>

\* Step 3 returns: /analyze_image_similarity.  With a description the
\* text_to_speech call is issued; without one the handler runs on to its
\* end in the same block.
analyzeReturns(r) ==
    /\ Awaiting(r, "analyze_image_similarity")
    /\ \/ \E f \in Failures : Abort(r, f)
       \/ \E sc \in Scores, d \in Descriptions :
            LET data == [similarity_score |-> sc, image_description |-> d]
                run == [runs[r] EXCEPT !.analysisData = data,
                                       !.returned = Append(@, "ok")]
            IN  /\ similarityScore' = sc
                /\ imageDescription' = d
                /\ stamp' = [stamp EXCEPT !.analysis = runs[r].id]
                /\ IF ~Falsy(d)
                     THEN /\ progress' = 80
                          /\ progressLog' = Append(progressLog, 80)
                          /\ currentStep' = "speaking"
                          /\ runs' = [runs EXCEPT ![r] =
                                 [run EXCEPT !.issued =
                                      Append(@, "text_to_speech")]]
                          /\ UNCHANGED <<isProcessing, toast, finished>>
                     ELSE Complete(r, run, Append(progressLog, 80))
                /\ UNCHANGED <<micVars, recVars, transcript, imageUrl,
                               descriptionAudio, typeSupported, runNo>>

\* Faulty variant of textToSpeechReturns: the audio is not stored.
textToSpeechReturnsDropsAudio(r) ==
    /\ Awaiting(r, "text_to_speech")
    /\ \/ \E f \in Failures : Abort(r, f)
       \/ \E a \in Audios :
            /\ descriptionAudio' = descriptionAudio
            /\ stamp' = [stamp EXCEPT !.speech = runs[r].id]
            /\ Complete(r, [runs[r] EXCEPT !.ttsData = a,
                                           !.returned = Append(@, "ok")],
                        progressLog)
            /\ UNCHANGED <<micVars, recVars, transcript, imageUrl,
                           similarityScore, imageDescription, typeSupported,
                           runNo>>

\* Step 4 returns: /text_to_speech
textToSpeechReturns(r) ==
    /\ Awaiting(r, "text_to_speech")
    /\ \/ \E f \in Failures : Abort(r, f)
       \/ \E a \in Audios :
            /\ descriptionAudio' = a
            /\ stamp' = [stamp EXCEPT !.speech = runs[r].id]
            /\ Complete(r, [runs[r] EXCEPT !.ttsData = a,
                                           !.returned = Append(@, "ok")],
                        progressLog)
            /\ UNCHANGED <<micVars, recVars, transcript, imageUrl,
                           similarityScore, imageDescription, typeSupported,
                           runNo>>

\* ------------------------------------------------------------ controls
\* Start Recording is rendered while not recording and is disabled without
\* a selected device or while processing.
StartEnabled == ~isRecording /\ ~(Falsy(selectedDeviceId) \/ isProcessing)
\* Stop Recording is rendered while recording.
StopEnabled == isRecording
\* Process Recording is rendered once there is a recording.
ProcessRendered == recordedBlob # NoBlob
\* Faulty variant of ProcessDisabled: isProcessing is left out of `disabled`.
ProcessDisabledWhileRecording == isRecording
\* Process Recording is disabled while recording or processing.
ProcessDisabled == isRecording \/ isProcessing

ClickStart == StartEnabled /\ handleStartRecording
ClickStop == StopEnabled /\ handleStopRecording

\* A click on Process Recording: a disabled button dispatches nothing.
\* lastClick (history) tells what became of that click, until the next
\* step.
ClickProcess ==
    /\ ProcessRendered
    /\ IF ProcessDisabled
         THEN /\ lastClick' = "ignored"
              /\ UNCHANGED <<micVars, recVars, procVars, resultVars, toast,
                             typeSupported, runs, histVars>>
         ELSE /\ lastClick' = "dispatched"
              /\ handleProcessFlow

\* A step that is no click on Process Recording, in the component driven
\* through its controls.
Quiet == lastClick' = "none" /\ UNCHANGED <<calls, lastCall>>

\* The component driven through its rendered controls, with the platform's
\* and the services' steps.
Next ==
    \/ handleRequestMicPermissions /\ Quiet
    \/ \E id \in {"", "mic1", "mic2"} : selectDevice(id) /\ Quiet
    \/ ClickStart /\ Quiet
    \/ ClickStop /\ Quiet
    \/ ClickProcess /\ UNCHANGED <<calls, lastCall>>
    \/ StreamOpened /\ Quiet
    \/ StreamRefused /\ Quiet
    \/ \E i \in 1..Len(recorders) : ondataavailable(i) /\ Quiet
    \/ \E i \in 1..Len(recorders) : onstop(i) /\ Quiet
    \/ \E r \in 1..Len(runs) : transcribeReturns(r) /\ Quiet
    \/ \E r \in 1..Len(runs) : generateImageReturns(r) /\ Quiet
    \/ \E r \in 1..Len(runs) : analyzeReturns(r) /\ Quiet
    \/ \E r \in 1..Len(runs) : textToSpeechReturns(r) /\ Quiet

Spec == Init /\ [][Next]_vars

\* The same steps within the smaller budget MaxFairOps.
Fits == Used' <= MaxFairOps

FairNext ==
    \/ handleRequestMicPermissions /\ Quiet /\ Fits
    \/ \E id \in {"", "mic1", "mic2"} : selectDevice(id) /\ Quiet /\ Fits
    \/ ClickStart /\ Quiet /\ Fits
    \/ ClickStop /\ Quiet /\ Fits
    \/ ClickProcess /\ UNCHANGED <<calls, lastCall>> /\ Fits
    \/ StreamOpened /\ Quiet /\ Fits
    \/ StreamRefused /\ Quiet /\ Fits
    \/ \E i \in 1..Len(recorders) : ondataavailable(i) /\ Quiet /\ Fits
    \/ \E i \in 1..Len(recorders) : onstop(i) /\ Quiet /\ Fits
    \/ \E r \in 1..Len(runs) : transcribeReturns(r) /\ Quiet /\ Fits
    \/ \E r \in 1..Len(runs) : generateImageReturns(r) /\ Quiet /\ Fits
    \/ \E r \in 1..Len(runs) : analyzeReturns(r) /\ Quiet /\ Fits
    \/ \E r \in 1..Len(runs) : textToSpeechReturns(r) /\ Quiet /\ Fits

\* The component driven through its controls where the platform delivers
\* every stop event it has queued and every fetch settles, with a response
\* or a rejection.
FairSpec ==
    /\ Init
    /\ [][FairNext]_vars
    /\ WF_vars(\E i \in 1..Len(recorders) : onstop(i) /\ Quiet)
    /\ WF_vars(\E r \in 1..Len(runs) : transcribeReturns(r) /\ Quiet)
    /\ WF_vars(\E r \in 1..Len(runs) : generateImageReturns(r) /\ Quiet)
    /\ WF_vars(\E r \in 1..Len(runs) : analyzeReturns(r) /\ Quiet)
    /\ WF_vars(\E r \in 1..Len(runs) : textToSpeechReturns(r) /\ Quiet)

\* A handler called directly, whatever the controls show; `calls` counts
\* the calls made and lastCall names the handler called, until the next
\* step.
Called(handler) ==
    /\ calls < MaxCalls
    /\ calls' = calls + 1
    /\ lastCall' = handler
    /\ UNCHANGED lastClick
Returned == lastCall' = "none" /\ UNCHANGED <<lastClick, calls>>

NextCall ==
    \/ handleRequestMicPermissions /\ Called("request")
    \/ \E id \in {"", "mic1", "mic2"} : selectDevice(id) /\ Called("select")
    \/ handleStartRecording /\ Called("start")
    \/ handleStopRecording /\ Called("stop")
    \/ handleProcessFlow /\ Called("run")
    \/ StreamOpened /\ Returned
    \/ StreamRefused /\ Returned
    \/ \E i \in 1..Len(recorders) : ondataavailable(i) /\ Returned
    \/ \E i \in 1..Len(recorders) : onstop(i) /\ Returned
    \/ \E r \in 1..Len(runs) : transcribeReturns(r) /\ Returned
    \/ \E r \in 1..Len(runs) : generateImageReturns(r) /\ Returned
    \/ \E r \in 1..Len(runs) : analyzeReturns(r) /\ Returned
    \/ \E r \in 1..Len(runs) : textToSpeechReturns(r) /\ Returned

SpecCall == Init /\ [][NextCall]_vars

\* ---------------------------------------------------------------- claims
\* The runs in flight and the run that ended last.
AllRuns == {runs[r] : r \in 1..Len(runs)} \cup {finished}
AllOk == <<"ok", "ok", "ok", "ok">>
GenericMessages == {Fallback(StageOrder[i]) : i \in 1..Len(StageOrder)}

\* C1: in every run the remote operations are issued in the order
\* transcribe, generate_image, analyze_image_similarity, text_to_speech, and
\* the operation of stage N is issued only when those of stages 1..N-1 of
\* the same run have all returned success.
C1_StagesInOrder ==
    \A run \in AllRuns :
        /\ Len(run.issued) <= Len(StageOrder)
        /\ \A i \in 1..Len(run.issued) :
              /\ run.issued[i] = StageOrder[i]
              /\ \A j \in 1..(i - 1) :
                    j <= Len(run.returned) /\ run.returned[j] = "ok"

C1_Witness ==
    \E r \in 1..Len(runs) :
        runs[r].issued = StageOrder /\ runs[r].returned = <<"ok", "ok", "ok">>

\* A click on Process Recording that found a run in progress: the step
\* from a state with isProcessing in which lastClick becomes "ignored".
ClickWhileRunning ==
    isProcessing /\ lastClick' = "ignored" /\ lastClick # "ignored"

\* The state of the run in progress and everything a run writes.
runState == <<runs, isProcessing, currentStep, progress, transcript, imageUrl,
              similarityScore, imageDescription, descriptionAudio, runNo,
              finished, progressLog, stamp>>

C3_FailFast ==
    \A run \in AllRuns :
        \A i \in 1..Len(run.returned) :
            run.returned[i] # "ok" =>
                /\ run.outcome = "failed"
                /\ Len(run.issued) = i
                /\ i > 1 => /\ transcript = run.transcriptData
                            /\ stamp.transcript = run.id
                /\ i > 2 => /\ imageUrl = run.imageData
                            /\ stamp.imageUrl = run.id
                /\ i > 3 =>
                      /\ similarityScore = run.analysisData.similarity_score
                      /\ imageDescription = run.analysisData.image_description
                      /\ stamp.analysis = run.id

C3_Witness ==
    /\ finished.outcome = "failed"
    /\ finished.issued = <<"transcribe", "generate_image">>
    /\ finished.failure.detail = "quota exceeded"
    /\ transcript = "a red fox in a forest"

\* C4: on a run whose four stages all succeed, the values assigned to
\* progress are 0, then exactly 20, 40, 60, 80, 100 in that order.
C4_ProgressSequence ==
    (finished.outcome = "completed" /\ finished.returned = AllOk)
        => progressLog = <<0, 20, 40, 60, 80, 100>>

C4_Witness ==
    /\ finished.outcome = "completed"
    /\ finished.returned = AllOk
    /\ progress = 100

\* C5: progress is an integer in 0..100; it decreases only in the step
\* that starts a new run, whose first assignment is the reset to 0; the
\* values assigned within a run never decrease and none but the first is 0.
C5_ProgressMonotone ==
    /\ [](/\ progress \in 0..100
          /\ \A i \in 1..Len(progressLog) :
                /\ progressLog[i] \in 0..100
                /\ i > 1 => /\ progressLog[i] # 0
                            /\ progressLog[i] >= progressLog[i - 1]
          /\ progressLog # <<>> => /\ progressLog[1] = 0
                                   /\ progress = Last(progressLog))
    /\ [][progress' < progress => runNo' = runNo + 1]_vars

C5_Witness ==
    /\ runNo = 2
    /\ finished.outcome = "failed"
    /\ progress = 40

\* C6: when analyze_image_similarity succeeds with an empty description,
\* text_to_speech is not called, the run ends completed without an error,
\* and progress is 100.
C6_SkipSpeech ==
    \A run \in AllRuns :
        /\ Len(run.issued) = Len(StageOrder)
              => ~Falsy(run.analysisData.image_description)
        /\ (/\ Len(run.returned) >= 3
            /\ run.returned[3] = "ok"
            /\ Falsy(run.analysisData.image_description))
              => /\ run = finished
                 /\ run.outcome = "completed"
                 /\ run.error = ""
                 /\ run.issued = SubSeq(StageOrder, 1, 3)
                 /\ progress = 100
                 /\ toast.title # "Processing Error"

C6_Witness ==
    /\ finished.outcome = "completed"
    /\ finished.analysisData.image_description = ""
    /\ finished.returned = <<"ok", "ok", "ok">>
    /\ progress = 100

\* C7: when a stage's remote call answers with a non-success status, the
\* error shown is the detail of the response body if it carries one, and a
\* generic message otherwise, at each of the four stages.
C7_ErrorDetail ==
    (finished.outcome = "failed" /\ finished.failure.kind = "http_error") =>
        /\ IF Falsy(finished.failure.detail)
             THEN finished.error \in GenericMessages
             ELSE finished.error = finished.failure.detail
        /\ toast.title = "Processing Error"
              => toast.description = finished.error

C7_Witness ==
    /\ finished.outcome = "failed"
    /\ Last(finished.issued) = "generate_image"
    /\ finished.failure.kind = "http_error"
    /\ toast = Toast("Processing Error", "quota exceeded")

\* C8: handleProcessFlow called without a recording shows No Recording and
\* does nothing else: no run starts, no remote call is issued, and
\* progress, the current step and the results are unchanged.
C8_NoRecording ==
    [][/\ recordedBlob = NoBlob => /\ runNo' = runNo
                                   /\ Len(runs') <= Len(runs)
       /\ (toast'.title = "No Recording" /\ toast' # toast) =>
              /\ recordedBlob = NoBlob
              /\ UNCHANGED runState]_vars

C8_Witness ==
    /\ toast.title = "No Recording"
    /\ recordedBlob = NoBlob
    /\ runNo = 0

\* C9: a run in which all four stages succeed ends completed with progress
\* 100 and with every result field holding what the run's responses
\* returned.
C9_Completed ==
    \A run \in AllRuns :
        run.returned = AllOk =>
            /\ run = finished
            /\ run.outcome = "completed"
            /\ progress = 100
            /\ transcript = run.transcriptData
            /\ imageUrl = run.imageData
            /\ similarityScore = run.analysisData.similarity_score
            /\ imageDescription = run.analysisData.image_description
            /\ descriptionAudio = run.ttsData
            /\ run.transcriptData \in Transcripts
            /\ run.imageData \in ImageUrls
            /\ run.analysisData.similarity_score \in Scores
            /\ run.analysisData.image_description \in Descriptions \ {""}
            /\ run.ttsData \in Audios
            /\ \A k \in DOMAIN stamp : stamp[k] = run.id

C9_Witness ==
    /\ finished.outcome = "completed"
    /\ finished.returned = AllOk
    /\ transcript = "a red fox in a forest"
    /\ similarityScore = 825
    /\ imageDescription = "a red fox standing among trees"
    /\ descriptionAudio # ""

\* C10: the populated result fields are a prefix of the stage order: a
\* result of stages 2..4 is populated only if the results of the stages
\* before it are, and only if its stage was executed with success in the
\* current run (the run started last).
C10_PrefixOfCurrentRun ==
    /\ stamp.imageUrl # 0 => stamp.transcript # 0
    /\ stamp.analysis # 0 => stamp.imageUrl # 0
    /\ stamp.speech # 0 => stamp.analysis # 0
    /\ \A k \in {"imageUrl", "analysis", "speech"} :
          stamp[k] # 0 => stamp[k] = runNo

\* The stop event of recorder i is queued; it has been delivered and the
\* tracks of the recorder's stream are stopped.
StopQueued(i) == i <= Len(recorders) /\ recorders[i].stopQueued
Released(i) ==
    /\ i <= Len(recorders)
    /\ ~recorders[i].stopQueued
    /\ ~recorders[i].tracksLive

\* C11: every stop of a capture in progress queues the stop event of the
\* recorder, the event is eventually delivered, and its delivery makes the
\* chunks collected (none included) the recording and stops the tracks of
\* the stream; a recording of no chunks is accepted by handleProcessFlow,
\* which starts a run and shows no error.
C11_StopReleases ==
    /\ \A i \in 1..MaxFairOps : StopQueued(i) ~> Released(i)
    /\ [][/\ (isRecording /\ ~isRecording') => StopQueued(recorder)'
          /\ \A i \in 1..Len(recorders) :
                (StopQueued(i) /\ ~StopQueued(i)') =>
                    /\ recordedBlob' = [rec |-> i, size |-> recorders[i].chunks]
                    /\ recordedBlob' # NoBlob
                    /\ Released(i)'
          /\ (lastClick' = "dispatched" /\ recordedBlob # NoBlob) =>
                    /\ runNo' = runNo + 1
                    /\ Last(runs').blob = recordedBlob
                    /\ UNCHANGED toast]_vars

C11_Witness ==
    /\ Released(1)
    /\ \E r \in 1..Len(runs) : runs[r].blob = [rec |-> 1, size |-> 0]

\* The step is a direct call of `handler`.
CallOf(handler) == calls' = calls + 1 /\ lastCall' = handler

\* C12: isRecording tells whether the recorder of the component exists and
\* is recording; handleStopRecording called when it is not (no recorder
\* yet, or the recorder inactive) changes nothing: not the recording flag,
\* the recorder, the recording or the pipeline's state, and no toast is
\* shown.
C12_StopIsNoOp ==
    /\ [](isRecording <=> (/\ recorder # NoRecorder
                           /\ recorders[recorder].state = "recording"))
    /\ [][(CallOf("stop") /\ ~isRecording) =>
             UNCHANGED <<isRecording, recorder, recordedBlob, recorders,
                         pendingOpen, runState, toast, micVars>>]_vars

C12_Witness ==
    /\ lastCall = "stop"
    /\ ~isRecording
    /\ recorder = 1
    /\ recordedBlob.rec = 1
    /\ toast.title = "Recording Complete"

\* C13: handleStartRecording called with no selected device id (null or
\* the empty string) shows No Microphone and does nothing else: no
\* getUserMedia call is issued, no recorder is created, and the recording
\* flag, the recorder and the recording are unchanged.
C13_NoDeviceSelected ==
    [][(CallOf("start") /\ Falsy(selectedDeviceId)) =>
          /\ toast' = Toast("No Microphone",
                            "Please select a microphone first.")
          /\ UNCHANGED <<pendingOpen, recorders, recorder, isRecording,
                         recordedBlob, micVars, runState>>]_vars

C13_Witness ==
    /\ lastCall = "start"
    /\ selectedDeviceId = ""
    /\ toast.title = "No Microphone"
    /\ pendingOpen = 0
    /\ recorders = <<>>

\* C14: a refusal of the platform is answered by the Permission Error
\* toast, and from then on (until the platform grants a request) start is
\* unreachable: no step issues the getUserMedia call of
\* handleStartRecording.
C14_DeniedBlocksStart ==
    [][/\ (denied' /\ ~denied) => toast'.title = "Permission Error"
       /\ denied => pendingOpen' <= pendingOpen]_vars

\* C15: where the platform does not support the encoding, no getUserMedia
\* call of handleStartRecording is ever issued, no recorder exists, the
\* component is not recording and there is no recording; a call of
\* handleStartRecording with a device selected shows Browser Not Supported
\* and leaves the recording state as it was.
C15_UnsupportedFormat ==
    /\ [](~typeSupported => /\ pendingOpen = 0
                            /\ recorders = <<>>
                            /\ recorder = NoRecorder
                            /\ ~isRecording
                            /\ recordedBlob = NoBlob)
    /\ [][(CallOf("start") /\ ~Falsy(selectedDeviceId) /\ ~typeSupported) =>
             /\ toast' = Toast("Browser Not Supported",
                     "Your browser doesn't support WebM with Opus codec.")
             /\ UNCHANGED <<recVars, micVars, runState>>]_vars

C15_Witness ==
    /\ lastCall = "start"
    /\ ~typeSupported
    /\ selectedDeviceId = "mic2"
    /\ toast.title = "Browser Not Supported"
    /\ pendingOpen = 0
    /\ recorders = <<>>

\* The recorders whose stream, opened by handleStartRecording, has live
\* tracks.
OpenStreams == {i \in 1..Len(recorders) : recorders[i].tracksLive}

\* C16: at most one stream opened by handleStartRecording is open at any
\* time, and an open stream is that of the component's recorder, the one
\* handleStopRecording stops: no stream is orphaned.
C16_OneOpenStream ==
    /\ Cardinality(OpenStreams) <= 1
    /\ \A i \in OpenStreams : i = recorder

\* No run is active and the current step is cleared, after a run that
\* ended completed or failed.
Resting ==
    /\ ~isProcessing
    /\ currentStep = Null
    /\ runs = <<>>
    /\ finished.outcome \in {"completed", "failed"}

C18_PreviousDiscarded ==
    recordedBlob # NoBlob => recordedBlob.rec = recorder

\* C19: at most one run is in progress, a run in progress has exactly one
\* remote call in flight (each call but the last it issued has returned),
\* and a run that ended has none.
C19_NoOverlap ==
    /\ Len(runs) <= 1
    /\ \A r \in 1..Len(runs) :
          Len(runs[r].issued) = Len(runs[r].returned) + 1
    /\ Len(finished.issued) = Len(finished.returned)

C19_Witness ==
    /\ Len(runs) = 1
    /\ runs[1].issued = SubSeq(StageOrder, 1, 3)
    /\ runs[1].returned = <<"ok", "ok">>

\* C20: no remote operation occurs twice among the calls of one run, and
\* once a run has failed no call is in flight until handleProcessFlow
\* starts another run.
C20_NoRetries ==
    /\ \A run \in AllRuns :
          \A i, j \in 1..Len(run.issued) :
              run.issued[i] = run.issued[j] => i = j
    /\ finished.outcome = "failed" => runs = <<>>

C20_Witness ==
    /\ finished.outcome = "failed"
    /\ finished.failure.kind = "threw"
    /\ finished.issued = SubSeq(StageOrder, 1, 3)
    /\ finished.returned = <<"ok", "ok", "threw">>
    /\ runs = <<>>

\* C21: a call of handleRequestMicPermissions that fails leaves no stream
\* open, whether the platform refused (reported as Permission Error) or
\* granted and no input device was found (reported as No Microphones).
C21_NoHandleLeftOpen ==
    [][/\ (denied' /\ ~denied) => /\ permStreams' = permStreams
                                   /\ toast'.title = "Permission Error"
       /\ (toast'.title = "No Microphones" /\ toast.title # "No Microphones")
              => permStreams' = permStreams]_vars

\* The call of `stage` is in flight.
InFlight(stage) == \E r \in 1..Len(runs) : Last(runs[r].issued) = stage

\* What holds from the return of the transcribe call on: the transcript is
\* stored and progress is 40 while generate_image is in flight, the image
\* is stored and progress is 60 while analyze_image_similarity is, the
\* analysis is stored and progress is 80 while text_to_speech is, and a
\* completed run, with or without text_to_speech, leaves progress at 100.
ProgressAfterTranscribe ==
    /\ \A r \in 1..Len(runs) :
          LET stage == Last(runs[r].issued)
          IN  /\ stage = "generate_image" =>
                    /\ progress = 40
                    /\ transcript = runs[r].transcriptData
              /\ stage = "analyze_image_similarity" =>
                    /\ progress = 60
                    /\ imageUrl = runs[r].imageData
              /\ stage = "text_to_speech" =>
                    /\ progress = 80
                    /\ imageDescription =
                           runs[r].analysisData.image_description
    /\ finished.outcome = "completed" => progress = 100

\* C22 (as claimed): progress is below 20 while the transcribe call is in
\* flight and becomes 20 with its success; then 40 right before the
\* generate_image call, 60, 80 and 100 as the later stages succeed.
C22_ProgressPerStage ==
    /\ InFlight("transcribe") => progress < 20
    /\ ProgressAfterTranscribe

\* C22 (amended): progress is 20 from the start of the run, before the
\* transcribe call is issued and while it is in flight; its success stores
\* the transcript and sets 40 in the same block, right before the
\* generate_image call; then 60, 80 and 100 as the later stages succeed.
C22_ProgressFromStart ==
    /\ InFlight("transcribe") => progress = 20
    /\ ProgressAfterTranscribe

C22_Witness ==
    /\ InFlight("transcribe")
    /\ progress = 20
    /\ currentStep = "transcribing"
    /\ stamp.transcript = 0

\* C23: while the component is recording it holds no recording, also
\* where the stop event of an earlier recorder is delivered after a new
\* start.
C23_NoArtifactWhileRecording ==
    isRecording => recordedBlob = NoBlob

\* C24: with a run in flight, handleStopRecording and the stop event of a
\* recorder change nothing of the run: not its step, progress or results,
\* not the recording it holds, and not the calls it has issued.
C24_RecorderLeavesRun ==
    [][(/\ runs # <<>>
        /\ \/ isRecording /\ ~isRecording'
           \/ \E i \in 1..Len(recorders) : StopQueued(i) /\ ~StopQueued(i)')
          => UNCHANGED runState]_vars

C24_Witness ==
    /\ Len(runs) = 1
    /\ recordedBlob # NoBlob
    /\ recordedBlob # runs[1].blob
    /\ ~isRecording
    /\ progress = 20

\* C25: the component driven through its controls is never recording and
\* processing at once.
C25_CaptureExcludesRun ==
    ~(isRecording /\ isProcessing)

\* C26: every populated result field was written by the run started last.
C26_ResultsOfOneRun ==
    /\ transcript # "" => stamp.transcript = runNo
    /\ imageUrl # "" => stamp.imageUrl = runNo
    /\ (similarityScore # NullScore \/ imageDescription # "")
          => stamp.analysis = runNo
    /\ descriptionAudio # "" => stamp.speech = runNo

\* C27: a selected device id that is not empty is the id of a device of
\* audioDevices, and a grant that lists devices selects the first of them.
C27_SelectedIsEnumerated ==
    /\ [](~Falsy(selectedDeviceId) =>
             \E i \in 1..Len(audioDevices) :
                 audioDevices[i] = selectedDeviceId)
    /\ [][(permStreams' > permStreams /\ audioDevices' # <<>>) =>
             selectedDeviceId' = audioDevices'[1]]_vars

====
